---- MODULE Spec2Model ----
(***************************************************************************)
(* A model of greendo.py, a command-line client for the RYOBI garage door  *)
(* opener: the attribute accessor (_Attr.maybe), the module views, Device  *)
(* construction and its command builders, Client construction/teardown and *)
(* the dispatch done by main.                                              *)
(*                                                                         *)
(* Python values are tagged records, so that 0, False, None and a missing  *)
(* key stay different things.  The outcome of a call is either Ret(v) or   *)
(* Raise(e), e the name of the exception the interpreter raises.           *)
(***************************************************************************)
EXTENDS Integers, Sequences, FiniteSets, TLC

VARIABLES
    \* ---- accessor runs (SpecAttr)
    attrData,      \* _Attr.data of the accessor under test
    attrPath,      \* the *path argument of maybe
    attrOp,        \* which method ran: "idle", "maybe", "door_status"
    attrOut,       \* its outcome
    \* ---- Device construction and command builders (SpecDevice)
    devAttrs,      \* data["attributes"]: module key -> attribute tree
    dev,           \* the Device object
    devTodo,       \* keys the constructor's loop has not visited yet
    devNotices,    \* number of "Unknown module key" lines printed
    devPc,         \* "init", "ready" (constructed), "done" (builder called)
    devCmd,        \* the builder called and its argument
    devOut,        \* the builder's outcome
    \* ---- one run of main (Spec)
    args,          \* the parsed command line: target, opt, dry, dev
    srvDevices,    \* the server's device listing: the kind of each device
    pc,            \* where the run is
    session,       \* the remote session: "none", "active", "ended"
    logoutSent,    \* number of /logout requests made
    ws,            \* the web socket: "none", "open", "closed"
    wsSent,        \* the messages sent on the web socket, in order
    devices,       \* Client.devices
    master,        \* Client.master
    entered,       \* the Client was constructed and the with block entered
    device,        \* main's selected device
    cmd,           \* outcome of the dispatch: the payload or the exception
    printed,       \* the payloads main printed
    exc            \* the exception ending the run, "none" if there is none

attrVars == <<attrData, attrPath, attrOp, attrOut>>
devVars == <<devAttrs, dev, devTodo, devNotices, devPc, devCmd, devOut>>

mainVars == <<args, srvDevices, pc, session, logoutSent, ws, wsSent, devices,
              master, entered, device, cmd, printed, exc>>

vars == <<attrVars, devVars, mainVars>>

-----------------------------------------------------------------------------
(* Bounds *)

MaxCode == 3       \* integer leaves range over 0..MaxCode
MaxPathLen == 3    \* key paths of length 0..MaxPathLen
MaxUnknown == 2    \* unrecognized keys in an attribute map: 0..MaxUnknown
MaxPos == 2        \* door max positions range over -1..MaxPos
MaxDevices == 2    \* the server lists 0..MaxDevices devices

-----------------------------------------------------------------------------
(* Python values *)

None == [kind |-> "none"]
PyInt(n) == [kind |-> "int", n |-> n]
PyBool(b) == [kind |-> "bool", b |-> b]
PyStr(s) == [kind |-> "str", s |-> s]
PyDict(f) == [kind |-> "dict", items |-> f]

IsDict(v) == v.kind = "dict"

Ret(v) == [ok |-> TRUE, val |-> v]
Raise(e) == [ok |-> FALSE, exc |-> e]
Idle == [ok |-> FALSE, exc |-> "not called"]

\* dict.get(p): the stored value, or None when the key is missing.
DictGet(v, p) == IF p \in DOMAIN v.items THEN v.items[p] ELSE None

-----------------------------------------------------------------------------
(* _Attr *)

\* _Attr.valid
valid(data) == data # None

\* The for loop of _Attr.maybe from position i on, val being the value
\* reached so far.  val.get on anything but a dict is an AttributeError.
RECURSIVE MaybeLoop(_, _, _)
MaybeLoop(val, path, i) ==
    IF i > Len(path) THEN Ret(val)
    ELSE IF ~IsDict(val) THEN Raise("AttributeError")
    ELSE LET nxt == DictGet(val, path[i])
         IN  IF nxt = None THEN Ret(None)
             ELSE MaybeLoop(nxt, path, i + 1)

\* _Attr.maybe(*path)
maybe(data, path) ==
    IF ~valid(data) THEN Ret(None) ELSE MaybeLoop(data, path, 1)

-----------------------------------------------------------------------------
(* _Door *)

\* Python's == between a looked-up value and an int literal: bool is a
\* subclass of int (False == 0, True == 1); None, str and dict equal no int.
PyEqInt(v, n) ==
    \/ v.kind = "int" /\ v.n = n
    \/ v.kind = "bool" /\ (IF v.b THEN 1 ELSE 0) = n

\* A decoding that takes "no code" for code 0, as `if not state` would.
door_status_of_falsy(state) ==
    IF state = None \/ PyEqInt(state, 0) THEN "closed"
    ELSE IF PyEqInt(state, 1) THEN "open"
    ELSE IF PyEqInt(state, 2) THEN "closing"
    ELSE "opening"

door_status_of(state) ==
    IF PyEqInt(state, 0) THEN "closed"
    ELSE IF PyEqInt(state, 1) THEN "open"
    ELSE IF PyEqInt(state, 2) THEN "closing"
    ELSE "opening"

\* _Door.door_status
door_status(data) ==
    LET state == maybe(data, <<"doorState", "value">>)
    IN  IF state.ok THEN Ret(PyStr(door_status_of(state.val))) ELSE state

-----------------------------------------------------------------------------
(* _Module and its subclasses *)

\* An _Attr (or subclass) instance: _Attr.__init__
Attr(cls, key, data) == [kind |-> "attr", cls |-> cls, key |-> key, data |-> data]

\* A method call on obj: on None it is an AttributeError.
\* _Module.port
port(mod) ==
    IF mod = None THEN Raise("AttributeError")
    ELSE maybe(mod.data, <<"portId", "value">>)

\* _Module.module
module(mod) ==
    IF mod = None THEN Raise("AttributeError")
    ELSE maybe(mod.data, <<"moduleId", "value">>)

\* _Door.max_pos
max_pos(door) ==
    IF door = None THEN Raise("AttributeError")
    ELSE maybe(door.data, <<"maxDoorPosition", "value">>)

-----------------------------------------------------------------------------
(* Device *)

\* str.startswith
StartsWith(k, p) == Len(k) >= Len(p) /\ SubSeq(k, 1, Len(p)) = p

\* A chain whose first branch tests the prefix instead of the whole key.
KeyClassMasterPrefix(k) ==
    IF StartsWith(k, "masterUnit") THEN [field |-> "master", cls |-> "_Attr"]
    ELSE IF StartsWith(k, "backupCharger_") THEN [field |-> "charger", cls |-> "_Charger"]
    ELSE IF StartsWith(k, "garageDoor_") THEN [field |-> "door", cls |-> "_Door"]
    ELSE IF StartsWith(k, "fan_") THEN [field |-> "fan", cls |-> "_Fan"]
    ELSE IF StartsWith(k, "wifiModule_") THEN [field |-> "wifi", cls |-> "_Module"]
    ELSE IF StartsWith(k, "garageLight_") THEN [field |-> "light", cls |-> "_Light"]
    ELSE [field |-> "unknown", cls |-> "none"]

\* The if/elif chain of Device.__init__: the attribute of the Device a key
\* is stored in and the class of the view, or "unknown".
KeyClass(k) ==
    IF k = "masterUnit" THEN [field |-> "master", cls |-> "_Attr"]
    ELSE IF StartsWith(k, "backupCharger_") THEN [field |-> "charger", cls |-> "_Charger"]
    ELSE IF StartsWith(k, "garageDoor_") THEN [field |-> "door", cls |-> "_Door"]
    ELSE IF StartsWith(k, "fan_") THEN [field |-> "fan", cls |-> "_Fan"]
    ELSE IF StartsWith(k, "wifiModule_") THEN [field |-> "wifi", cls |-> "_Module"]
    ELSE IF StartsWith(k, "garageLight_") THEN [field |-> "light", cls |-> "_Light"]
    ELSE [field |-> "unknown", cls |-> "none"]

\* Device.__init__ up to its loop: every view starts as None.  The Device
\* has no attribute named vacation.
NewDevice(meta) ==
    [meta |-> meta, charger |-> None, door |-> None, master |-> None,
     fan |-> None, wifi |-> None, light |-> None]

\* One iteration of the loop of Device.__init__ on the item (k, v).
Classify(d, k, v) ==
    LET c == KeyClass(k)
    IN  IF c.field = "unknown" THEN d
        ELSE [d EXCEPT ![c.field] = Attr(c.cls, k, v)]

\* The print of the else branch: 1 when (k, v) makes the loop print a notice.
NoticesFor(k) == IF KeyClass(k).field = "unknown" THEN 1 ELSE 0

\* Device.id
DeviceId(d) == d.meta.varName

\* Python 2 ordering of None and ints: None is smaller than every int.
Py2Less(a, b) ==
    IF a.kind = "none" THEN b.kind # "none"
    ELSE IF b.kind = "none" THEN FALSE
    ELSE a.n < b.n

\* min(a, b) and max(a, b): the first argument wins ties.
PyMin(a, b) == IF Py2Less(b, a) THEN b ELSE a
PyMax(a, b) == IF Py2Less(a, b) THEN b ELSE a

\* Device._module_cmd_payload; msg has been evaluated by the caller.
module_cmd_payload(d, mod, msg) ==
    LET mt == module(mod)
        pt == port(mod)
    IN  IF ~mt.ok THEN mt
        ELSE IF ~pt.ok THEN pt
        ELSE Ret([jsonrpc |-> PyStr("2.0"),
                  method |-> PyStr("gdoModuleCommand"),
                  params |-> [msgType |-> PyInt(16),
                              moduleType |-> mt.val,
                              portId |-> pt.val,
                              topic |-> PyStr(DeviceId(d)),
                              moduleMsg |-> msg]])

Msg(field, value) == [field |-> field, value |-> value]

\* Device.cmd_open
cmd_open(d) == module_cmd_payload(d, d.door, Msg("doorCommand", PyStr("1")))

\* A close builder that sends the open code.
cmd_close_as_open(d) == module_cmd_payload(d, d.door, Msg("doorCommand", PyStr("1")))

\* Device.cmd_close
cmd_close(d) == module_cmd_payload(d, d.door, Msg("doorCommand", PyStr("0")))

\* Device.cmd_preset
cmd_preset(d) == module_cmd_payload(d, d.door, Msg("doorCommand", PyStr("2")))

\* A preset-position builder that only clamps from below.
cmd_preset_pos_no_upper(d, pos) ==
    LET m == max_pos(d.door)
    IN  IF ~m.ok THEN m
        ELSE module_cmd_payload(d, d.door,
                 Msg("presetPosition", PyMax(PyInt(0), PyInt(pos))))

\* Device.cmd_preset_pos; pos is an int, so int(pos) is pos.
cmd_preset_pos(d, pos) ==
    LET m == max_pos(d.door)
    IN  IF ~m.ok THEN m
        ELSE module_cmd_payload(d, d.door,
                 Msg("presetPosition", PyMax(PyInt(0), PyMin(m.val, PyInt(pos)))))

\* Device.cmd_light; on is a bool, so bool(on) is on.
cmd_light(d, on) == module_cmd_payload(d, d.light, Msg("lightState", PyBool(on)))

\* Device.cmd_light_timer
cmd_light_timer(d, time) == module_cmd_payload(d, d.light, Msg("lightTimer", PyInt(time)))

\* Device.cmd_vacation: self.vacation is read first, and a Device has no
\* such attribute.
cmd_vacation(d, on) ==
    IF "vacation" \in DOMAIN d
    THEN module_cmd_payload(d, d.vacation, Msg("vacationMode", PyBool(on)))
    ELSE Raise("AttributeError")

\* Device.cmd_motion
cmd_motion(d, on) == module_cmd_payload(d, d.door, Msg("motionSensor", PyBool(on)))

FanMax == 100

\* A fan builder that only clamps from above.
cmd_fan_no_lower(d, speed) ==
    module_cmd_payload(d, d.fan, Msg("speed", PyMin(PyInt(FanMax), PyInt(speed))))

\* Device.cmd_fan
cmd_fan(d, speed) ==
    module_cmd_payload(d, d.fan,
        Msg("speed", PyMin(PyInt(FanMax), PyMax(PyInt(0), PyInt(speed)))))

-----------------------------------------------------------------------------
(* Inputs of the Device runs: an attribute map with any of the known       *)
(* module keys and up to MaxUnknown unrecognized ones.                     *)

KnownKeys == {"masterUnit", "backupCharger_4", "garageDoor_7", "fan_2",
              "wifiModule_5", "garageLight_7"}

\* Keys no branch matches: near misses of the known patterns among them.
UnknownPool == {"masterUnit_0", "fan", "name", "GarageDoor_1"}

Leaf(v) == PyDict([k \in {"value"} |-> v])

Ids(moduleId, portId) ==
    [moduleId |-> Leaf(PyInt(moduleId)), portId |-> Leaf(PyInt(portId))]

Absent == [kind |-> "absent"]

\* The attribute tree the server reports under key k; max is the value of
\* the door's maxDoorPosition (an int or null), or Absent for no such field.
ModuleData(k, max) ==
    IF k = "garageDoor_7" THEN
        IF max = Absent THEN PyDict(Ids(5, 7))
        ELSE PyDict([moduleId |-> Leaf(PyInt(5)), portId |-> Leaf(PyInt(7)),
                     maxDoorPosition |-> Leaf(max)])
    ELSE IF k = "garageLight_7" THEN PyDict(Ids(3, 8))
    ELSE IF k = "fan_2" THEN PyDict(Ids(2, 1))
    ELSE IF k = "backupCharger_4" THEN PyDict(Ids(6, 4))
    ELSE IF k = "wifiModule_5" THEN PyDict(Ids(1, 5))
    ELSE IF k = "masterUnit" THEN PyDict(<<>>)
    ELSE None

DoorMaxChoices == {Absent, None} \cup {PyInt(n) : n \in -1..MaxPos}

Positions == -1..(MaxPos + 1)

Speeds == {-10, -1, 0, 1, 50, 99, 100, 101, 150}

NoCmd == [name |-> "none"]

MainOff ==
    /\ args = <<>>
    /\ srvDevices = <<>>
    /\ pc = "off"
    /\ session = "none"
    /\ logoutSent = 0
    /\ ws = "none"
    /\ wsSent = <<>>
    /\ devices = <<>>
    /\ master = None
    /\ entered = FALSE
    /\ device = None
    /\ cmd = Idle
    /\ printed = <<>>
    /\ exc = "none"

AttrOff ==
    /\ attrData = None
    /\ attrPath = <<>>
    /\ attrOp = "off"
    /\ attrOut = Idle

DevOff ==
    /\ devAttrs = <<>>
    /\ dev = None
    /\ devTodo = {}
    /\ devNotices = 0
    /\ devPc = "off"
    /\ devCmd = NoCmd
    /\ devOut = Idle

\* Device(meta, data) has run up to the loop over data["attributes"].
DevInit ==
    /\ AttrOff
    /\ MainOff
    /\ \E known \in SUBSET KnownKeys, unknown \in SUBSET UnknownPool,
          max \in DoorMaxChoices :
          /\ Cardinality(unknown) <= MaxUnknown
          /\ devAttrs = [k \in known \cup unknown |-> ModuleData(k, max)]
    /\ dev = NewDevice([varName |-> "dev1", name |-> "Garage"])
    /\ devTodo = DOMAIN devAttrs
    /\ devNotices = 0
    /\ devPc = "init"
    /\ devCmd = NoCmd
    /\ devOut = Idle

\* One iteration of the constructor's loop; iteritems() fixes no order.
DeviceInitStep ==
    /\ devPc = "init"
    /\ \E k \in devTodo :
          /\ dev' = Classify(dev, k, devAttrs[k])
          /\ devNotices' = devNotices + NoticesFor(k)
          /\ devTodo' = devTodo \ {k}
    /\ UNCHANGED <<devAttrs, devPc, devCmd, devOut, attrVars, mainVars>>

\* The loop is exhausted: the constructor returns.
DeviceInitDone ==
    /\ devPc = "init"
    /\ devTodo = {}
    /\ devPc' = "ready"
    /\ UNCHANGED <<devAttrs, dev, devTodo, devNotices, devCmd, devOut, attrVars, mainVars>>

\* A builder is called on the constructed Device.
Call(name, arg, out) ==
    /\ devPc = "ready"
    /\ devPc' = "done"
    /\ devCmd' = [name |-> name, arg |-> arg]
    /\ devOut' = out
    /\ UNCHANGED <<devAttrs, dev, devTodo, devNotices, attrVars, mainVars>>

CallOpen == Call("cmd_open", None, cmd_open(dev))
CallClose == Call("cmd_close", None, cmd_close(dev))
CallPreset == Call("cmd_preset", None, cmd_preset(dev))
CallPresetPos == \E x \in Positions : Call("cmd_preset_pos", PyInt(x), cmd_preset_pos(dev, x))
CallLight == \E on \in BOOLEAN : Call("cmd_light", PyBool(on), cmd_light(dev, on))
CallLightTimer == \E t \in Positions : Call("cmd_light_timer", PyInt(t), cmd_light_timer(dev, t))
CallVacation == \E on \in BOOLEAN : Call("cmd_vacation", PyBool(on), cmd_vacation(dev, on))
CallMotion == \E on \in BOOLEAN : Call("cmd_motion", PyBool(on), cmd_motion(dev, on))
CallFan == \E x \in Speeds : Call("cmd_fan", PyInt(x), cmd_fan(dev, x))

DevNext ==
    \/ DeviceInitStep
    \/ DeviceInitDone
    \/ CallOpen
    \/ CallClose
    \/ CallPreset
    \/ CallPresetPos
    \/ CallLight
    \/ CallLightTimer
    \/ CallVacation
    \/ CallMotion
    \/ CallFan

SpecDevice == DevInit /\ [][DevNext]_vars

-----------------------------------------------------------------------------
(* Inputs of the accessor runs: attribute trees two levels deep over the   *)
(* keys of the door-state lookup, and key paths over the same keys.        *)

TreeKeys == {"doorState", "value"}

Scalars == {None, PyBool(FALSE), PyBool(TRUE)} \cup {PyInt(n) : n \in 0..MaxCode}

DictsOver(S) == {PyDict(f) : f \in UNION {[D -> S] : D \in SUBSET TreeKeys}}

Level1 == Scalars \cup DictsOver(Scalars)

Trees == {None} \cup DictsOver(Level1)

Paths == UNION {[1..n -> TreeKeys] : n \in 0..MaxPathLen}

AttrInit ==
    /\ DevOff
    /\ MainOff
    /\ attrData \in Trees
    /\ attrPath \in Paths
    /\ attrOp = "idle"
    /\ attrOut = Idle

\* attr.maybe(*attrPath)
CallMaybe ==
    /\ attrOp = "idle"
    /\ attrOp' = "maybe"
    /\ attrOut' = maybe(attrData, attrPath)
    /\ UNCHANGED <<attrData, attrPath, devVars, mainVars>>

\* door.door_status(), the accessor taken as a _Door
CallDoorStatus ==
    /\ attrOp = "idle"
    /\ attrOp' = "door_status"
    /\ attrOut' = door_status(attrData)
    /\ UNCHANGED <<attrData, attrPath, devVars, mainVars>>

AttrNext == CallMaybe \/ CallDoorStatus

SpecAttr == AttrInit /\ [][AttrNext]_vars

-----------------------------------------------------------------------------
(* Client and main *)

\* Python truth value (`not x`, `if x`).
Truthy(v) ==
    CASE v.kind = "none" -> FALSE
      [] v.kind = "bool" -> v.b
      [] v.kind = "int" -> v.n # 0
      [] v.kind = "str" -> v.s # ""
      [] v.kind = "dict" -> DOMAIN v.items # {}
      [] OTHER -> TRUE

\* The loop of Device.__init__ run to its end.  The keys are taken in some
\* order; the attribute maps used here hold at most one key per category,
\* so every order gives the same Device.
RECURSIVE InitLoop(_, _, _)
InitLoop(d, attrs, todo) ==
    IF todo = {} THEN d
    ELSE LET k == CHOOSE x \in todo : TRUE
         IN  InitLoop(Classify(d, k, attrs[k]), attrs, todo \ {k})

\* Device(meta, data)
DeviceOf(meta, attrs) == InitLoop(NewDevice(meta), attrs, DOMAIN attrs)

\* The loop of Client.__init__ that looks for the first device with a
\* master unit, from position i on; None when there is none.
RECURSIVE FirstMaster(_, _)
FirstMaster(devs, i) ==
    IF i > Len(devs) THEN None
    ELSE IF devs[i].master # None THEN devs[i].master
    ELSE FirstMaster(devs, i + 1)

\* The try block of Client.__init__ on the reply ws.recv() gave; RecvError
\* stands for recv (or json.loads) raising.
RecvError == [kind |-> "error"]

AuthCheck(reply) ==
    IF reply = RecvError THEN Raise("IOError")
    ELSE IF ~Truthy(reply) THEN Raise("ValueError")
    ELSE IF ~IsDict(reply) THEN Raise("AttributeError")
    ELSE LET params == DictGet(reply, "params")
         IN  IF ~Truthy(params) THEN Raise("ValueError")
             ELSE IF ~IsDict(params) THEN Raise("AttributeError")
             ELSE IF ~Truthy(DictGet(params, "authorized")) THEN Raise("ValueError")
             ELSE Ret(None)

\* The index main computes from --dev for a device list of length n.
SelectIndex(devArg, n) ==
    LET lo == IF devArg < n THEN devArg ELSE n
    IN  IF lo > 0 THEN lo ELSE 0

\* client.devices[index] (0-based)
ListGet(list, index) ==
    IF index >= 0 /\ index < Len(list) THEN Ret(list[index + 1])
    ELSE Raise("IndexError")

\* The methods a Device has, with the number of arguments each takes.
Arity(name) ==
    CASE name \in {"cmd_open", "cmd_close", "cmd_preset"} -> 0
      [] name \in {"cmd_preset_pos", "cmd_light", "cmd_light_timer",
                   "cmd_vacation", "cmd_motion", "cmd_fan"} -> 1
      [] OTHER -> -1

\* device.<name>(*argv): a name Device does not define is an AttributeError,
\* a wrong number of arguments a TypeError.
Invoke(d, name, argv) ==
    IF Arity(name) < 0 THEN Raise("AttributeError")
    ELSE IF Len(argv) # Arity(name) THEN Raise("TypeError")
    ELSE CASE name = "cmd_open" -> cmd_open(d)
           [] name = "cmd_close" -> cmd_close(d)
           [] name = "cmd_preset" -> cmd_preset(d)
           [] name = "cmd_preset_pos" -> cmd_preset_pos(d, argv[1].n)
           [] name = "cmd_light" -> cmd_light(d, argv[1].b)
           [] name = "cmd_light_timer" -> cmd_light_timer(d, argv[1].n)
           [] name = "cmd_vacation" -> cmd_vacation(d, argv[1].b)
           [] name = "cmd_motion" -> cmd_motion(d, argv[1].b)
           [] name = "cmd_fan" -> cmd_fan(d, argv[1].n)

IsOn(a) == PyBool(a.opt = PyStr("on"))

\* The if/elif chain of main that turns a mutation subcommand into cmd.
Dispatch(d, a) ==
    CASE a.target = "door" ->
             IF a.opt = PyStr("open") THEN Invoke(d, "cmd_open", <<>>)
             ELSE IF a.opt = PyStr("close") THEN Invoke(d, "cmd_close", <<>>)
             ELSE Invoke(d, "cmd_preset", <<>>)
      [] a.target = "motion" -> Invoke(d, "cmd_motion", <<IsOn(a)>>)
      [] a.target = "light" -> Invoke(d, "cmd_light", <<IsOn(a)>>)
      [] a.target = "lighttimer" ->
             Invoke(d, "cmd_lighttimer", <<PyMax(PyInt(0), a.opt)>>)
      [] a.target = "fan" ->
             Invoke(d, "cmd_fan", <<PyMax(PyInt(0), PyMin(PyInt(100), a.opt))>>)
      [] a.target = "vacation" -> Invoke(d, "cmd_vacation", <<IsOn(a)>>)
      [] a.target = "preset" ->
             Invoke(d, "cmd_preset", <<PyMax(PyInt(0), a.opt)>>)

\* A method of a module view called on a view that may be None.
View(mod, path) ==
    IF mod = None THEN Raise("AttributeError") ELSE maybe(mod.data, path)

\* The status branch of main: what it reads to print (for the door, the
\* decoded status; its other fields are lookups of the same kind).
Status(d, thing) ==
    CASE thing = "config" -> Ret(None)
      [] thing = "charger" -> View(d.charger, <<"chargeLevel", "value">>)
      [] thing = "door" ->
             IF d.door = None THEN Raise("AttributeError")
             ELSE door_status(d.door.data)
      [] thing = "light" -> View(d.light, <<"lightState", "value">>)
      [] thing = "fan" -> View(d.fan, <<"speed", "value">>)

-----------------------------------------------------------------------------
(* Inputs of a run of main: the command line and what the server lists. *)

OnOff == {PyStr("on"), PyStr("off")}

Subcommands ==
    {[target |-> "status", opt |-> PyStr(t)] :
        t \in {"config", "charger", "door", "light", "fan"}}
    \cup {[target |-> "door", opt |-> PyStr(c)] : c \in {"open", "close", "preset"}}
    \cup {[target |-> t, opt |-> o] : t \in {"motion", "light", "vacation"}, o \in OnOff}
    \cup {[target |-> "lighttimer", opt |-> PyInt(n)] : n \in {-1, 5}}
    \cup {[target |-> "fan", opt |-> PyInt(n)] : n \in {-10, 50, 150}}
    \cup {[target |-> "preset", opt |-> PyInt(n)] : n \in {-1, 1}}

Mutations == {"door", "motion", "light", "lighttimer", "fan", "vacation", "preset"}

\* Attribute maps of the devices a server lists: a complete opener, and one
\* that reports neither master unit nor fan nor charger.
DeviceKinds == {"full", "bare"}

AttrsOfKind(kind) ==
    LET keys == IF kind = "full" THEN KnownKeys
                ELSE {"garageDoor_7", "garageLight_7", "name"}
    IN  [k \in keys |-> ModuleData(k, PyInt(MaxPos))]

DeviceNames == <<"gdo1", "gdo2", "gdo3", "gdo4">>

MetaOf(i) == [varName |-> DeviceNames[i], name |-> "Garage"]

AuthMsg == [method |-> PyStr("srvWebSocketAuth")]

Replies ==
    {RecvError, None, PyDict(<<>>), PyInt(1),
     PyDict([id |-> PyInt(3)]),
     PyDict([params |-> PyDict([authorized |-> PyBool(FALSE)])]),
     PyDict([params |-> PyDict([authorized |-> PyBool(TRUE)])])}

Init ==
    /\ AttrOff
    /\ DevOff
    /\ \E sub \in Subcommands, dry \in BOOLEAN, d \in -1..(MaxDevices + 1) :
          args = [target |-> sub.target, opt |-> sub.opt, dry |-> dry, dev |-> d]
    /\ srvDevices \in UNION {[1..n -> DeviceKinds] : n \in 0..MaxDevices}
    /\ pc = "login"
    /\ session = "none"
    /\ logoutSent = 0
    /\ ws = "none"
    /\ wsSent = <<>>
    /\ devices = <<>>
    /\ master = None
    /\ entered = FALSE
    /\ device = None
    /\ cmd = Idle
    /\ printed = <<>>
    /\ exc = "none"

\* The run ends with exception e leaving main, nothing closing anything.
Die(e) ==
    /\ exc' = e
    /\ pc' = "exit"

\* Control leaves a block whose exit calls Client.close(): the except clause
\* of Client.__init__ or the with block of main; e is the exception in
\* flight, "none" on a return.
Leave(e) ==
    /\ exc' = e
    /\ pc' = "close"

\* Client._login: the /login request, which the server answers or fails.
login ==
    /\ pc = "login"
    /\ \/ /\ session' = "active"
          /\ pc' = "devices"
          /\ exc' = exc
       \/ /\ Die("ResponseError")
          /\ session' = session
    /\ UNCHANGED <<args, srvDevices, logoutSent, ws, wsSent, devices, master,
                   entered, device, cmd, printed, attrVars, devVars>>

\* _Response.from_url_resp on a 200 answer without "err": an empty result
\* (`not result`) makes the response an error, "No result".
NoResult(result) == Len(result) = 0

\* Client._devices: the /devices request.  The request fails, or it is
\* answered with the listing; an empty listing is an error response too.
ListDevices ==
    /\ pc = "devices"
    /\ \/ /\ ~NoResult(srvDevices)
          /\ pc' = "details"
          /\ exc' = exc
       \/ Die("ResponseError")
    /\ UNCHANGED <<args, srvDevices, session, logoutSent, ws, wsSent, devices,
                   master, entered, device, cmd, printed, attrVars, devVars>>

\* Client._devices: the /devices/<name> request of the next listed device
\* and the construction of its Device.
DeviceDetails ==
    /\ pc = "details"
    /\ LET i == Len(devices) + 1
       IN  \/ /\ devices' = Append(devices, DeviceOf(MetaOf(i), AttrsOfKind(srvDevices[i])))
              /\ pc' = IF i = Len(srvDevices) THEN "master" ELSE "details"
              /\ exc' = exc
           \/ /\ Die("ResponseError")
              /\ devices' = devices
    /\ UNCHANGED <<args, srvDevices, session, logoutSent, ws, wsSent, master,
                   entered, device, cmd, printed, attrVars, devVars>>

\* Client.__init__: the search for the master unit.
FindMaster ==
    /\ pc = "master"
    /\ master' = FirstMaster(devices, 1)
    /\ IF master' = None
       THEN Die("ValueError")
       ELSE pc' = "connect" /\ exc' = exc
    /\ UNCHANGED <<args, srvDevices, session, logoutSent, ws, wsSent, devices,
                   entered, device, cmd, printed, attrVars, devVars>>

\* Client.__init__: websocket.create_connection.
Connect ==
    /\ pc = "connect"
    /\ \/ /\ ws' = "open"
          /\ pc' = "auth_send"
          /\ exc' = exc
       \/ /\ Die("IOError")
          /\ ws' = ws
    /\ UNCHANGED <<args, srvDevices, session, logoutSent, wsSent, devices,
                   master, entered, device, cmd, printed, attrVars, devVars>>

\* Client.__init__: ws.send of the srvWebSocketAuth request, before the try.
AuthSend ==
    /\ pc = "auth_send"
    /\ \/ /\ wsSent' = Append(wsSent, AuthMsg)
          /\ pc' = "auth_recv"
          /\ exc' = exc
       \/ /\ Die("IOError")
          /\ wsSent' = wsSent
    /\ UNCHANGED <<args, srvDevices, session, logoutSent, ws, devices, master,
                   entered, device, cmd, printed, attrVars, devVars>>

\* Client.__init__: the try block; on success main enters the with block.
AuthRecv ==
    /\ pc = "auth_recv"
    /\ \E reply \in Replies :
          LET r == AuthCheck(reply)
          IN  IF r.ok
              THEN /\ entered' = TRUE
                   /\ pc' = "select"
                   /\ exc' = exc
              ELSE /\ Leave(r.exc)
                   /\ entered' = entered
    /\ UNCHANGED <<args, srvDevices, session, logoutSent, ws, wsSent, devices,
                   master, device, cmd, printed, attrVars, devVars>>

\* main: device = client.devices[...]
SelectDevice ==
    /\ pc = "select"
    /\ LET r == ListGet(devices, SelectIndex(args.dev, Len(devices)))
       IN  IF r.ok
           THEN /\ device' = r.val
                /\ pc' = "dispatch"
                /\ exc' = exc
           ELSE /\ Leave(r.exc)
                /\ device' = device
    /\ UNCHANGED <<args, srvDevices, session, logoutSent, ws, wsSent, devices,
                   master, entered, cmd, printed, attrVars, devVars>>

\* main: the status subcommand prints and returns.
ShowStatus ==
    /\ pc = "dispatch"
    /\ args.target = "status"
    /\ LET r == Status(device, args.opt.s)
       IN  /\ Leave(IF r.ok THEN "none" ELSE r.exc)
           /\ printed' = IF r.ok THEN Append(printed, r) ELSE printed
    /\ UNCHANGED <<args, srvDevices, session, logoutSent, ws, wsSent, devices,
                   master, entered, device, cmd, attrVars, devVars>>

\* main: a mutation subcommand builds cmd.
BuildCommand ==
    /\ pc = "dispatch"
    /\ args.target # "status"
    /\ cmd' = Dispatch(device, args)
    /\ IF cmd'.ok
       THEN pc' = "print" /\ exc' = exc
       ELSE Leave(cmd'.exc)
    /\ UNCHANGED <<args, srvDevices, session, logoutSent, ws, wsSent, devices,
                   master, entered, device, printed, attrVars, devVars>>

\* main: cmd is printed; a dry run returns.
PrintCommand ==
    /\ pc = "print"
    /\ printed' = Append(printed, cmd)
    /\ IF args.dry
       THEN Leave("none")
       ELSE pc' = "send" /\ exc' = exc
    /\ UNCHANGED <<args, srvDevices, session, logoutSent, ws, wsSent, devices,
                   master, entered, device, cmd, attrVars, devVars>>

\* Client.send_command: ws.send(cmd)
send_command ==
    /\ pc = "send"
    /\ \/ /\ wsSent' = Append(wsSent, cmd.val)
          /\ pc' = "recv"
          /\ exc' = exc
       \/ /\ Leave("IOError")
          /\ wsSent' = wsSent
    /\ UNCHANGED <<args, srvDevices, session, logoutSent, ws, devices, master,
                   entered, device, cmd, printed, attrVars, devVars>>

\* Client.send_command: ws.recv(); main prints the response and falls out
\* of the with block.
RecvResponse ==
    /\ pc = "recv"
    /\ \/ Leave("none")
       \/ Leave("IOError")
    /\ UNCHANGED <<args, srvDevices, session, logoutSent, ws, wsSent, devices,
                   master, entered, device, cmd, printed, attrVars, devVars>>

\* Client.close: the socket is closed, then /logout is requested; a failed
\* logout raises in place of whatever was in flight.
close ==
    /\ pc = "close"
    /\ ws' = "closed"
    /\ logoutSent' = logoutSent + 1
    /\ \/ /\ session' = "ended"
          /\ exc' = exc
       \/ /\ session' = session
          /\ exc' = "ResponseError"
    /\ pc' = "exit"
    /\ UNCHANGED <<args, srvDevices, wsSent, devices, master, entered, device,
                   cmd, printed, attrVars, devVars>>

Next ==
    \/ login
    \/ ListDevices
    \/ DeviceDetails
    \/ FindMaster
    \/ Connect
    \/ AuthSend
    \/ AuthRecv
    \/ SelectDevice
    \/ ShowStatus
    \/ BuildCommand
    \/ PrintCommand
    \/ send_command
    \/ RecvResponse
    \/ close

Spec == Init /\ [][Next]_vars

-----------------------------------------------------------------------------
(* Properties of the accessor (checked under SpecAttr) *)

\* What is stored at path in the tree node, None when a key of the path is
\* missing or the path runs through something that is not a mapping.
RECURSIVE StoredAt(_, _, _)
StoredAt(node, path, i) ==
    IF i > Len(path) THEN node
    ELSE IF IsDict(node) /\ path[i] \in DOMAIN node.items
         THEN StoredAt(node.items[path[i]], path, i + 1)
         ELSE None

\* C1: for every tree and every key path, maybe(path) never raises; it
\* returns None when the tree is absent or a prefix of the path is missing,
\* and the value stored at the path otherwise.
C1_MaybeNeverRaises ==
    attrOp = "maybe" =>
        attrOut = Ret(IF attrData = None THEN None
                      ELSE StoredAt(attrData, attrPath, 1))

\* The doorState field of a door tree is missing, null, or a mapping (the
\* {"value": code} wrapper of the device details response).
WrappedDoorState(data) ==
    \/ data = None
    \/ "doorState" \notin DOMAIN data.items
    \/ data.items["doorState"].kind \in {"none", "dict"}

\* The doorState code of a door tree, None when there is none.
DoorCode(data) == StoredAt(data, <<"doorState", "value">>, 1)

\* C2: door_status() returns closed for code 0, open for 1, closing for 2,
\* and opening for every other code and when the code, the doorState field
\* or the whole tree is absent.  (False and True are the ints 0 and 1.)
C2_DoorStatusDecoding ==
    attrOp = "door_status" /\ WrappedDoorState(attrData) =>
        LET c == DoorCode(attrData)
        IN  attrOut = Ret(PyStr(
                CASE c \in {PyInt(0), PyBool(FALSE)} -> "closed"
                  [] c \in {PyInt(1), PyBool(TRUE)} -> "open"
                  [] c = PyInt(2) -> "closing"
                  [] OTHER -> "opening"))

\* C2's case: a door tree with data but no doorState field decodes to opening.
C2_Witness ==
    /\ attrOp = "door_status"
    /\ attrData # None
    /\ "doorState" \notin DOMAIN attrData.items
    /\ attrOut = Ret(PyStr("opening"))

-----------------------------------------------------------------------------
(* Properties of Device (checked under SpecDevice) *)

DoorKey == "garageDoor_7"

\* The door's max position as the claims read it: 0 when it is not found.
DoorMaxOrZero ==
    LET m == StoredAt(devAttrs[DoorKey], <<"maxDoorPosition", "value">>, 1)
    IN  IF m.kind = "int" THEN m.n ELSE 0

IntMin(a, b) == IF a < b THEN a ELSE b
IntMax(a, b) == IF a > b THEN a ELSE b

\* C3: cmd_preset_pos(x) returns a payload whose presetPosition is
\* max(0, min(m, x)), m the door's max position, taken as 0 when not found.
C3_PresetPosClamp ==
    devCmd.name = "cmd_preset_pos" /\ dev.door # None =>
        /\ devOut.ok
        /\ devOut.val.params.moduleMsg =
             Msg("presetPosition",
                 PyInt(IntMax(0, IntMin(DoorMaxOrZero, devCmd.arg.n))))

\* C3's case: with no max position reported, a positive request encodes 0.
C3_Witness ==
    /\ devCmd.name = "cmd_preset_pos"
    /\ dev.door # None
    /\ "maxDoorPosition" \notin DOMAIN devAttrs[DoorKey].items
    /\ devCmd.arg.n > 0
    /\ devOut.ok
    /\ devOut.val.params.moduleMsg = Msg("presetPosition", PyInt(0))

\* C4: cmd_fan(x) returns a payload whose speed is max(0, min(100, x)).
C4_FanClamp ==
    devCmd.name = "cmd_fan" /\ dev.fan # None =>
        /\ devOut.ok
        /\ devOut.val.params.moduleMsg =
             Msg("speed", PyInt(IntMax(0, IntMin(100, devCmd.arg.n))))

\* C4's case: cmd_fan(-10) encodes speed 0.
C4_Witness ==
    /\ devCmd = [name |-> "cmd_fan", arg |-> PyInt(-10)]
    /\ devOut.ok
    /\ devOut.val.params.moduleMsg = Msg("speed", PyInt(0))

\* The module a builder addresses: the light for the light commands, the
\* fan for the fan command, the door for the rest (vacation included).
TargetOf(name) ==
    IF name \in {"cmd_light", "cmd_light_timer"} THEN dev.light
    ELSE IF name = "cmd_fan" THEN dev.fan
    ELSE dev.door

\* C7: on a Device with door, light and fan, every builder returns, without
\* raising, an envelope {jsonrpc "2.0", method gdoModuleCommand, params
\* {msgType 16, moduleType and portId of the target module, topic the device
\* id, moduleMsg}}.
C7_BuildersReturnEnvelope ==
    devPc = "done" /\ dev.door # None /\ dev.light # None /\ dev.fan # None =>
        /\ devOut.ok
        /\ devOut.val.jsonrpc = PyStr("2.0")
        /\ devOut.val.method = PyStr("gdoModuleCommand")
        /\ devOut.val.params.msgType = PyInt(16)
        /\ devOut.val.params.moduleType =
             StoredAt(TargetOf(devCmd.name).data, <<"moduleId", "value">>, 1)
        /\ devOut.val.params.portId =
             StoredAt(TargetOf(devCmd.name).data, <<"portId", "value">>, 1)
        /\ devOut.val.params.topic = PyStr(dev.meta.varName)

\* C8: with one key per known category and n unrecognized keys, visited in
\* any order, construction ends with master and the five typed views each
\* set to the view of its key, and exactly n notices printed.
C8_ConstructionClassifies ==
    devPc \in {"ready", "done"} /\ KnownKeys \subseteq DOMAIN devAttrs =>
        /\ dev.master = Attr("_Attr", "masterUnit", devAttrs["masterUnit"])
        /\ dev.charger = Attr("_Charger", "backupCharger_4", devAttrs["backupCharger_4"])
        /\ dev.door = Attr("_Door", "garageDoor_7", devAttrs["garageDoor_7"])
        /\ dev.fan = Attr("_Fan", "fan_2", devAttrs["fan_2"])
        /\ dev.wifi = Attr("_Module", "wifiModule_5", devAttrs["wifiModule_5"])
        /\ dev.light = Attr("_Light", "garageLight_7", devAttrs["garageLight_7"])
        /\ devNotices = Cardinality(DOMAIN devAttrs \ KnownKeys)

\* C8's case: all six known keys and one unrecognized key, one notice.
C8_Witness ==
    /\ devPc = "ready"
    /\ KnownKeys \subseteq DOMAIN devAttrs
    /\ Cardinality(DOMAIN devAttrs \ KnownKeys) = 1
    /\ devNotices = 1
    /\ dev.light # None

DoorCommandOut(name, code) ==
    devCmd.name = name /\ devOut.ok =>
        devOut.val.params.moduleMsg = Msg("doorCommand", code)

\* C9 as stated: open, close and preset encode doorCommand as the integers
\* 1, 0 and 2.
C9_DoorCommandIntegers ==
    /\ DoorCommandOut("cmd_open", PyInt(1))
    /\ DoorCommandOut("cmd_close", PyInt(0))
    /\ DoorCommandOut("cmd_preset", PyInt(2))

\* C9 amended: open, close and preset encode doorCommand as the strings
\* "1", "0" and "2".
C9_DoorCommandStrings ==
    /\ DoorCommandOut("cmd_open", PyStr("1"))
    /\ DoorCommandOut("cmd_close", PyStr("0"))
    /\ DoorCommandOut("cmd_preset", PyStr("2"))

\* C9's case: cmd_close has returned a payload carrying the string "0".
C9_Witness ==
    /\ devCmd.name = "cmd_close"
    /\ devOut.ok
    /\ devOut.val.params.moduleMsg = Msg("doorCommand", PyStr("0"))

-----------------------------------------------------------------------------
(* Properties of Client and main (checked under Spec) *)

\* C5: when Client construction fails after the socket was opened (the auth
\* send fails, or the reply is empty, lacks params or is not authorized),
\* the socket is closed before the failure reaches the caller.
C5_FailedConstructionClosesSocket ==
    pc = "exit" /\ ~entered => ws # "open"

\* C6: in every run in which login succeeded, by the end of the process the
\* session's logout has been requested and any opened socket is closed, on
\* the normal path and on every error path.
C6_SessionAndSocketReleased ==
    pc = "exit" /\ session # "none" => logoutSent > 0 /\ ws # "open"

\* The payload of the builder a mutation subcommand stands for.
BuilderFor(d, a) ==
    CASE a.target = "door" /\ a.opt = PyStr("open") -> cmd_open(d)
      [] a.target = "door" /\ a.opt = PyStr("close") -> cmd_close(d)
      [] a.target = "door" /\ a.opt = PyStr("preset") -> cmd_preset(d)
      [] a.target = "motion" -> cmd_motion(d, a.opt = PyStr("on"))
      [] a.target = "light" -> cmd_light(d, a.opt = PyStr("on"))
      [] a.target = "vacation" -> cmd_vacation(d, a.opt = PyStr("on"))
      [] a.target = "lighttimer" -> cmd_light_timer(d, a.opt.n)
      [] a.target = "fan" -> cmd_fan(d, a.opt.n)
      [] a.target = "preset" -> cmd_preset_pos(d, a.opt.n)

\* main is past its dispatch of a mutation subcommand on a device that has
\* door, light and fan.
Dispatched ==
    /\ args.target \in Mutations
    /\ device # None
    /\ pc \in {"print", "send", "recv", "close", "exit"}
    /\ device.door # None /\ device.light # None /\ device.fan # None

Count(seq, x) == Cardinality({i \in DOMAIN seq : seq[i] = x})

\* C10: every mutation subcommand makes main obtain, without raising, the
\* payload of the corresponding builder, which is printed and, unless the
\* run is dry, sent exactly once.
C10_MutationsReachTheirBuilder ==
    Dispatched =>
        /\ cmd.ok
        /\ cmd = BuilderFor(device, args)
        /\ pc = "exit" /\ exc = "none" =>
              /\ printed = <<cmd>>
              /\ Count(wsSent, cmd.val) = IF args.dry THEN 0 ELSE 1

\* C11: for every --dev value and every non-empty device list of length n,
\* the index main selects with lies in 0..n-1, so the selection never fails
\* with an out-of-range error.
C11_DeviceIndexInRange ==
    entered =>
        /\ Len(devices) > 0
        /\ SelectIndex(args.dev, Len(devices)) \in 0..(Len(devices) - 1)
        /\ pc # "select" =>
              device = devices[SelectIndex(args.dev, Len(devices)) + 1]

====
